---- MODULE Spec2Model ----
(***************************************************************************)
(* A model of dfdx's gradient tape and gradient store                     *)
(* (src/src/gradients.rs).                                                 *)
(*                                                                         *)
(*   GradientTape  - a Vec of boxed FnOnce(&mut Gradients) closures;      *)
(*                   add_backward_op inserts at index 0, execute drains    *)
(*                   the Vec front to back against a new Gradients.        *)
(*   Gradients     - a HashMap<UniqueId, Box<dyn Any>>; mut_gradient,      *)
(*                   ref_gradient, remove and mut_and_ref.                 *)
(*                                                                         *)
(* A panic (an unwrap of None, a failed assert_ne!) is modelled by the     *)
(* status a call ends with; the store keeps whatever the call had done to  *)
(* it before the panic.                                                    *)
(*                                                                         *)
(* The specifications share the variables:                                 *)
(*   Spec        - the calls of the Gradients API on one store;            *)
(*   TapeSpec    - recording on a GradientTape and executing it;           *)
(*   CapSpec     - recording through the Tape trait (OwnedTape, NoneTape); *)
(*   PhantomSpec - the store called with a tensor and with its phantom;    *)
(*   IdSpec      - threads drawing identities.                             *)
(***************************************************************************)
EXTENDS Integers, Sequences, FiniteSets, TLC

\* ------------------------------------------------------------------ bounds

\* The longest tape that is recorded.
MaxOps == 3

\* The largest element value that is written through a reference.
MaxVal == 1

\* The largest constant a recorded closure adds.
MaxConst == 2

\* The length of the shorter of the two array types.
ShortLen == 1

\* The number of identities that are drawn.
MaxDraws == 5

\* ------------------------------------------------------------------- state

VARIABLES
    gradients,   \* the Gradients the program holds: gradient_by_id
    last,        \* the latest call: what it was given and how it ended
    borrow,      \* the references the latest call returned, while they live
    wrote,       \* per identity, the array last written through a reference
    operations,  \* GradientTape::operations, in Vec order
    tape,        \* "live", or "consumed" once execute has taken the tape
    recorded,    \* the closures in the order they were recorded
    log,         \* the tags of the closures in the order they were called
    firstTy,     \* per identity, the array type of the first entry stored
    holder,      \* the Tape implementation in use: "OwnedTape" or "NoneTape"
    counter,     \* the process-wide identity counter
    threads      \* per thread: where it is in unique_id() and what it drew

vars ==
    <<gradients, last, borrow, wrote, operations, tape, recorded, log,
      firstTy, holder, counter, threads>>

storeVars == <<gradients, last, borrow, wrote>>

tapeVars == <<operations, tape, recorded, log>>

idVars == <<counter, threads>>

\* ------------------------------------------------------- entities and arrays

\* UniqueId values carried by the entities. Identities are drawn from a
\* counter, so a tensor made later has the larger one.
Ids == {1, 2, 3}

\* The identities of the entities the store is called with directly.
CallIds == {1, 2}

\* The array types (HasArrayType::Array) of the entities: two fixed-size
\* arrays of different length.
ArrayTypes == {"short", "long"}

\* An entity is the argument of a call: the API reads t.id() and T::Array of
\* it; form tells a tensor from the PhantomTensor made of one.
\* Two entities with one id and different types are two entity kinds that
\* were given the same identity.
Entities == [id : Ids, ty : ArrayTypes, form : {"tensor"}]

NoEntity == [id |-> 0, ty |-> "none", form |-> "none"]

Tensor(id, ty) == [id |-> id, ty |-> ty, form |-> "tensor"]

ArrayLen(ty) == IF ty = "short" THEN ShortLen ELSE ShortLen + 1

\* The f32 elements: small whole numbers, which f32 adds and multiplies
\* exactly.
Vals == 0 .. MaxVal

Arrays(ty) == [1 .. ArrayLen(ty) -> Vals]

NoVal == << >>

\* T::Device::zeros::<T::Array>()
zeros(ty) == [i \in 1 .. ArrayLen(ty) |-> 0]

\* A Box<dyn Any> holding an array: its concrete type and its contents.
Entry(ty, data) == [ty |-> ty, data |-> data]

NoEntry == [ty |-> "none", data |-> NoVal]

\* Gradients::default(): a HashMap with no entry.
EmptyStore == [i \in Ids |-> NoEntry]

Present(g) == {i \in Ids : g[i] /= NoEntry}

\* The result of a call: the store as the call leaves it, how the call ended,
\* and what it returned (val: the array behind the returned reference or box;
\* rval: the array behind the second reference of mut_and_ref).
Result(g, status, val, rval) ==
    [store |-> g, status |-> status, val |-> val, rval |-> rval]

\* --------------------------------------------------------------- Gradients

\* Mutant: the zero-filled array is inserted whether or not an entry exists.
mut_gradient_insert(g, t) ==
    Result([g EXCEPT ![t.id] = Entry(t.ty, zeros(t.ty))], "ok", zeros(t.ty),
           NoVal)

\* Mutant: an entry of another type is replaced by a zero-filled array of the
\* entity's type.
mut_gradient_retype(g, t) ==
    LET e == IF g[t.id] = NoEntry \/ g[t.id].ty /= t.ty
             THEN Entry(t.ty, zeros(t.ty))
             ELSE g[t.id]
    IN Result([g EXCEPT ![t.id] = e], "ok", e.data, NoVal)

\* A failed downcast leaves the entry where it is: the unwrap panics after the
\* entry was looked up or inserted.
mut_gradient(g, t) ==
    LET e == IF g[t.id] = NoEntry THEN Entry(t.ty, zeros(t.ty)) ELSE g[t.id]
        g1 == [g EXCEPT ![t.id] = e]
    IN IF e.ty = t.ty
       THEN Result(g1, "ok", e.data, NoVal)
       ELSE Result(g1, "TypeError", NoVal, NoVal)

\* Mutant: a missing entry is allocated, as mut_gradient does.
ref_gradient_or_insert(g, t) ==
    LET e == IF g[t.id] = NoEntry THEN Entry(t.ty, zeros(t.ty)) ELSE g[t.id]
        g1 == [g EXCEPT ![t.id] = e]
    IN IF e.ty = t.ty
       THEN Result(g1, "ok", e.data, NoVal)
       ELSE Result(g1, "TypeError", NoVal, NoVal)

\* Mutant: the box is cast to the entity's array type without a check.
ref_gradient_unchecked(g, t) ==
    IF g[t.id] = NoEntry
    THEN Result(g, "LookupError", NoVal, NoVal)
    ELSE Result(g, "ok", g[t.id].data, NoVal)

\* Mutant: a missing entry reads as a zero-filled array.
ref_gradient_or_zeros(g, t) ==
    IF g[t.id] = NoEntry
    THEN Result(g, "ok", zeros(t.ty), NoVal)
    ELSE IF g[t.id].ty /= t.ty
         THEN Result(g, "TypeError", NoVal, NoVal)
         ELSE Result(g, "ok", g[t.id].data, NoVal)

ref_gradient(g, t) ==
    IF g[t.id] = NoEntry
    THEN Result(g, "LookupError", NoVal, NoVal)
    ELSE IF g[t.id].ty /= t.ty
         THEN Result(g, "TypeError", NoVal, NoVal)
         ELSE Result(g, "ok", g[t.id].data, NoVal)

\* Mutant: the whole map is cleared.
remove_clear(g, t) ==
    IF g[t.id] = NoEntry
    THEN Result(g, "LookupError", NoVal, NoVal)
    ELSE IF g[t.id].ty /= t.ty
         THEN Result(EmptyStore, "TypeError", NoVal, NoVal)
         ELSE Result(EmptyStore, "ok", g[t.id].data, NoVal)

\* Mutant: the entry is read and cloned, and stays in the map.
remove_get(g, t) ==
    IF g[t.id] = NoEntry
    THEN Result(g, "LookupError", NoVal, NoVal)
    ELSE IF g[t.id].ty /= t.ty
         THEN Result(g, "TypeError", NoVal, NoVal)
         ELSE Result(g, "ok", g[t.id].data, NoVal)

\* remove_entry takes the entry out of the map before the downcast is tried.
remove(g, t) ==
    IF g[t.id] = NoEntry
    THEN Result(g, "LookupError", NoVal, NoVal)
    ELSE LET g1 == [g EXCEPT ![t.id] = NoEntry]
         IN IF g[t.id].ty /= t.ty
            THEN Result(g1, "TypeError", NoVal, NoVal)
            ELSE Result(g1, "ok", g[t.id].data, NoVal)

\* Mutant: r is looked up before l is accessed.
mut_and_ref_r_first(g, l, r) ==
    IF l.id = r.id
    THEN Result(g, "IdentityCollision", NoVal, NoVal)
    ELSE LET rr == ref_gradient(g, r)
         IN IF rr.status /= "ok"
            THEN Result(g, rr.status, NoVal, NoVal)
            ELSE LET m == mut_gradient(g, l)
                 IN IF m.status /= "ok"
                    THEN Result(m.store, m.status, NoVal, NoVal)
                    ELSE Result(m.store, "ok", m.val, rr.val)

\* Mutant: the identities are compared after the two accesses.
mut_and_ref_late_assert(g, l, r) ==
    LET m == mut_gradient(g, l)
    IN IF m.status /= "ok"
       THEN Result(m.store, m.status, NoVal, NoVal)
       ELSE LET rr == ref_gradient(m.store, r)
            IN IF rr.status /= "ok"
               THEN Result(m.store, rr.status, NoVal, NoVal)
               ELSE IF l.id = r.id
                    THEN Result(m.store, "IdentityCollision", NoVal, NoVal)
                    ELSE Result(m.store, "ok", m.val, rr.val)

\* Mutant: the second pointer is taken from l's entry as well.
mut_and_ref_same_entry(g, l, r) ==
    IF l.id = r.id
    THEN Result(g, "IdentityCollision", NoVal, NoVal)
    ELSE LET m == mut_gradient(g, l)
         IN IF m.status /= "ok"
            THEN Result(m.store, m.status, NoVal, NoVal)
            ELSE LET rr == ref_gradient(m.store, r)
                 IN IF rr.status /= "ok"
                    THEN Result(m.store, rr.status, NoVal, NoVal)
                    ELSE Result(m.store, "ok", m.val, m.val)

mut_and_ref(g, l, r) ==
    IF l.id = r.id
    THEN Result(g, "IdentityCollision", NoVal, NoVal)
    ELSE LET m == mut_gradient(g, l)
         IN IF m.status /= "ok"
            THEN Result(m.store, m.status, NoVal, NoVal)
            ELSE LET rr == ref_gradient(m.store, r)
                 IN IF rr.status /= "ok"
                    THEN Result(m.store, rr.status, NoVal, NoVal)
                    ELSE Result(m.store, "ok", m.val, rr.val)

\* Mutant: the call returned a copy of the array, and the copy is changed.
write_copy(g, id, data) == g

\* An assignment through the &mut T::Array a call returned: the array of the
\* entry itself is changed.
write(g, id, data) == [g EXCEPT ![id].data = data]


\* ------------------------------------------------------------ GradientTape

\* The derivative data a chain-rule closure captures (negate: -1 everywhere).
Derivs == {-1}

\* The closures that are recorded.
\*   acc:   |g| { let t_grad = g.mut_gradient(&t); for x in t_grad { *x += c } }
\*   chain: |g| { let (t_grad, r_grad) = g.mut_and_ref(&t, &r);
\*                addmul(t_grad, t.data(), r_grad) }     with t.data() = c
\* A chain closure is built by an operation whose input and output have one
\* array type; its output is a new tensor, with an identity drawn after the
\* input's.
AccOps == [kind : {"acc"}, t : Entities, r : {NoEntity}, c : 1 .. MaxConst]

ChainOps ==
    {[kind |-> "chain", t |-> l, r |-> r, c |-> d] :
        l \in Entities, r \in Entities, d \in Derivs}

Closures ==
    AccOps \cup {op \in ChainOps : op.t.ty = op.r.ty /\ op.t.id < op.r.id}

\* A recorded operation: a closure and the position it was recorded at.
Tagged(op, n) ==
    [tag |-> n, kind |-> op.kind, t |-> op.t, r |-> op.r, c |-> op.c]

\* (operation)(&mut gradients): the call of one boxed closure.
RunOp(op, g) ==
    IF op.kind = "acc"
    THEN LET m == mut_gradient(g, op.t)
         IN IF m.status /= "ok"
            THEN Result(m.store, m.status, NoVal, NoVal)
            ELSE Result(write(m.store, op.t.id,
                              [i \in DOMAIN m.val |-> m.val[i] + op.c]),
                        "ok", NoVal, NoVal)
    ELSE LET m == mut_and_ref(g, op.t, op.r)
         IN IF m.status /= "ok"
            THEN Result(m.store, m.status, NoVal, NoVal)
            ELSE Result(write(m.store, op.t.id,
                              [i \in DOMAIN m.val |->
                                  m.val[i] + op.c * m.rval[i]]),
                        "ok", NoVal, NoVal)

\* Mutant: the operation is pushed at the end of the Vec.
add_backward_op_push(ops, op) == Append(ops, op)

\* self.operations.insert(0, Box::new(operation))
add_backward_op(ops, op) == <<op>> \o ops

\* Mutant: execute goes on with the store the program already holds.
NewGradients_held == gradients

\* let mut gradients: Gradients = Default::default();
NewGradients == EmptyStore

\* Mutant: only the first operation of the Vec is called.
RunAll_first(ops, g, ran) ==
    IF ops = << >>
    THEN [store |-> g, status |-> "ok", log |-> ran]
    ELSE LET res == RunOp(Head(ops), g)
         IN [store |-> res.store, status |-> res.status,
             log |-> Append(ran, Head(ops).tag)]

\* for operation in self.operations.drain(..) { (operation)(&mut gradients) }
\* A closure that panics ends the loop: the closures after it are dropped
\* without being called and no store is returned.
RECURSIVE RunAll(_, _, _)
RunAll(ops, g, ran) ==
    IF ops = << >>
    THEN [store |-> g, status |-> "ok", log |-> ran]
    ELSE LET res == RunOp(Head(ops), g)
             ran1 == Append(ran, Head(ops).tag)
         IN IF res.status /= "ok"
            THEN [store |-> res.store, status |-> res.status, log |-> ran1]
            ELSE RunAll(Tail(ops), res.store, ran1)

execute(ops) == RunAll(ops, NewGradients, << >>)

\* impl Tape for OwnedTape: self.0.add_backward_op(operation)
OwnedTape_add_backward_op(ops, op) == add_backward_op(ops, op)

\* Mutant: NoneTape keeps the operation like OwnedTape does.
NoneTape_add_backward_op_keep(ops, op) == add_backward_op(ops, op)

\* impl Tape for NoneTape: fn add_backward_op(&mut self, _operation: F) {}
NoneTape_add_backward_op(ops, op) == ops

\* Tape::OWNS_TAPE
OWNS_TAPE(h) == h = "OwnedTape"

\* Tape::add_backward_op on the implementation the tensor's type selects.
Tape_add_backward_op(h, ops, op) ==
    IF h = "OwnedTape"
    THEN OwnedTape_add_backward_op(ops, op)
    ELSE NoneTape_add_backward_op(ops, op)

\* Mutant: execute borrows the tape and leaves its operations in place.
consume_borrowed(ops) == [tape |-> "live", operations |-> ops]

\* execute(mut self): the tape is moved into the call and its Vec is drained,
\* so the caller has no tape and no operation left afterwards.
consume(ops) == [tape |-> "consumed", operations |-> << >>]

\* ----------------------------------------------------------------- actions

Call(op, status, t, r, val, rval) ==
    [op |-> op, status |-> status, t |-> t, r |-> r, val |-> val,
     rval |-> rval]

NoBorrow == [l |-> NoEntity, r |-> NoEntity]

\* The array types first stored under the identities, brought up to date
\* with the store g.
Noted(ft, g) == [i \in Ids |-> IF ft[i] = "none" THEN g[i].ty ELSE ft[i]]

NoTypes == [i \in Ids |-> "none"]

Threads == {"main", "worker"}

Idle == [pc |-> "idle", fresh |-> 0, ids |-> << >>]

IdInit ==
    /\ counter = 0
    /\ threads = [th \in Threads |-> Idle]

Init ==
    /\ gradients = EmptyStore
    /\ last = Call("new", "ok", NoEntity, NoEntity, NoVal, NoVal)
    /\ borrow = NoBorrow
    /\ wrote = EmptyStore
    /\ operations = << >>
    /\ tape = "live"
    /\ recorded = << >>
    /\ log = << >>
    /\ firstTy = NoTypes
    /\ holder = "OwnedTape"
    /\ IdInit

\* let g = gradients.mut_gradient(&t);
MutGradient(t) ==
    LET res == mut_gradient(gradients, t)
    IN /\ gradients' = res.store
       /\ last' = Call("mut_gradient", res.status, t, NoEntity, res.val, NoVal)
       /\ borrow' = IF res.status = "ok"
                    THEN [l |-> t, r |-> NoEntity]
                    ELSE NoBorrow
       /\ firstTy' = Noted(firstTy, gradients')
       /\ UNCHANGED <<wrote, tapeVars, holder, idVars>>

\* gradients.ref_gradient(&t)
RefGradient(t) ==
    LET res == ref_gradient(gradients, t)
    IN /\ gradients' = res.store
       /\ last' = Call("ref_gradient", res.status, t, NoEntity, res.val, NoVal)
       /\ borrow' = NoBorrow
       /\ firstTy' = Noted(firstTy, gradients')
       /\ UNCHANGED <<wrote, tapeVars, holder, idVars>>

\* gradients.remove(&t)
Remove(t) ==
    LET res == remove(gradients, t)
    IN /\ gradients' = res.store
       /\ last' = Call("remove", res.status, t, NoEntity, res.val, NoVal)
       /\ borrow' = NoBorrow
       /\ wrote' = IF res.store[t.id] = NoEntry
                   THEN [wrote EXCEPT ![t.id] = NoEntry]
                   ELSE wrote
       /\ firstTy' = Noted(firstTy, gradients')
       /\ UNCHANGED <<tapeVars, holder, idVars>>

\* let (g_l, g_r) = gradients.mut_and_ref(&l, &r);
MutAndRef(l, r) ==
    LET res == mut_and_ref(gradients, l, r)
    IN /\ gradients' = res.store
       /\ last' = Call("mut_and_ref", res.status, l, r, res.val, res.rval)
       /\ borrow' = IF res.status = "ok" THEN [l |-> l, r |-> r] ELSE NoBorrow
       /\ firstTy' = Noted(firstTy, gradients')
       /\ UNCHANGED <<wrote, tapeVars, holder, idVars>>

\* An assignment through the live &mut reference; the borrow checker admits
\* no other call on the store while the reference lives, so any other call
\* ends the borrow.
Assign(data) ==
    /\ gradients' = write(gradients, borrow.l.id, data)
    /\ wrote' = [wrote EXCEPT ![borrow.l.id] = Entry(borrow.l.ty, data)]
    /\ last' = Call("write", "ok", borrow.l, borrow.r, data,
                    IF borrow.r = NoEntity
                    THEN NoVal
                    ELSE gradients'[borrow.r.id].data)
    /\ UNCHANGED <<borrow, tapeVars, firstTy, holder, idVars>>

\* *g = v;
WriteAll(v) ==
    /\ borrow.l /= NoEntity
    /\ v \in Arrays(borrow.l.ty)
    /\ Assign(v)

\* g[i] = x;
WriteElem(i, x) ==
    /\ borrow.l /= NoEntity
    /\ i \in 1 .. ArrayLen(borrow.l.ty)
    /\ Assign([gradients[borrow.l.id].data EXCEPT ![i] = x])

\* tape.add_backward_op(closure)
AddBackwardOp(op) ==
    /\ tape = "live"
    /\ Len(operations) < MaxOps
    /\ LET o == Tagged(op, Len(recorded) + 1)
       IN /\ operations' = add_backward_op(operations, o)
          /\ recorded' = Append(recorded, o)
    /\ last' = Call("add_backward_op", "ok", op.t, op.r, NoVal, NoVal)
    /\ UNCHANGED <<gradients, borrow, wrote, tape, log, firstTy, holder, idVars>>

\* let gradients = tape.execute();
\* When a closure panics no store is returned and the program keeps the
\* store it held.
Execute ==
    /\ tape = "live"
    /\ LET res == execute(operations)
           after == consume(operations)
       IN /\ gradients' = IF res.status = "ok" THEN res.store ELSE gradients
          /\ wrote' = IF res.status = "ok" THEN EmptyStore ELSE wrote
          /\ last' = Call("execute", res.status, NoEntity, NoEntity, NoVal,
                          NoVal)
          /\ log' = log \o res.log
          /\ firstTy' = IF res.status = "ok"
                         THEN Noted(NoTypes, res.store)
                         ELSE firstTy
          /\ operations' = after.operations
          /\ tape' = after.tape
    /\ borrow' = NoBorrow
    /\ UNCHANGED <<recorded, holder, idVars>>

\* ---------------------------------------------------------- specifications

\* The entities the store is called with.
Callers == {t \in Entities : t.id \in CallIds}

Next ==
    \/ \E t \in Callers : MutGradient(t)
    \/ \E t \in Callers : RefGradient(t)
    \/ \E t \in Callers : Remove(t)
    \/ \E l \in Callers, r \in Callers : MutAndRef(l, r)
    \/ \E ty \in ArrayTypes : \E v \in Arrays(ty) : WriteAll(v)
    \/ \E i \in 1 .. ShortLen + 1, x \in Vals : WriteElem(i, x)

Spec == Init /\ [][Next]_vars

\* A store the program may hold while it records: one it has written to.
HeldStore ==
    LET t == Tensor(1, "long")
    IN write(mut_gradient(EmptyStore, t).store, t.id,
             [i \in 1 .. ArrayLen(t.ty) |-> MaxVal])

TapeInit ==
    /\ gradients \in {EmptyStore, HeldStore}
    /\ last = Call("new", "ok", NoEntity, NoEntity, NoVal, NoVal)
    /\ borrow = NoBorrow
    /\ wrote = EmptyStore
    /\ operations = << >>
    /\ tape = "live"
    /\ recorded = << >>
    /\ log = << >>
    /\ firstTy = Noted(NoTypes, gradients)
    /\ holder = "OwnedTape"
    /\ IdInit

TapeNext ==
    \/ \E op \in Closures : AddBackwardOp(op)
    \/ Execute

TapeSpec == TapeInit /\ [][TapeNext]_vars

\* tape.add_backward_op(closure) through the Tape trait. With NoneTape there
\* is no GradientTape: nothing is recorded and there is nothing to execute.
TapeAddBackwardOp(op) ==
    /\ holder = "OwnedTape" => tape = "live" /\ Len(operations) < MaxOps
    /\ LET o == Tagged(op, Len(recorded) + 1)
       IN /\ operations' = Tape_add_backward_op(holder, operations, o)
          /\ recorded' = IF operations' = operations
                         THEN recorded
                         ELSE Append(recorded, o)
    /\ last' = Call("add_backward_op", "ok", op.t, op.r, NoVal, NoVal)
    /\ UNCHANGED <<gradients, borrow, wrote, tape, log, firstTy, holder, idVars>>

CapInit ==
    /\ holder \in {"OwnedTape", "NoneTape"}
    /\ tape = IF holder = "OwnedTape" THEN "live" ELSE "none"
    /\ gradients = EmptyStore
    /\ last = Call("new", "ok", NoEntity, NoEntity, NoVal, NoVal)
    /\ borrow = NoBorrow
    /\ wrote = EmptyStore
    /\ operations = << >>
    /\ recorded = << >>
    /\ log = << >>
    /\ firstTy = NoTypes
    /\ IdInit

CapNext ==
    \/ \E op \in Closures : TapeAddBackwardOp(op)
    \/ Execute

CapSpec == CapInit /\ [][CapNext]_vars

\* ---------------------------------------------------------------- phantoms

\* Mutant: the phantom is given an identity of its own.
phantom_fresh_id(t) ==
    [id |-> (t.id % Cardinality(Ids)) + 1, ty |-> t.ty, form |-> "phantom"]

\* fn phantom(&self) -> PhantomTensor<Self> {
\*     PhantomTensor { id: self.id, marker: PhantomData } }
\* with type ArrayType = T::ArrayType for PhantomTensor<T>.
phantom(t) == [id |-> t.id, ty |-> t.ty, form |-> "phantom"]

\* let t1: Tensor = Tensor { id }; let _t1: Tensor = Tensor { id };
\* a second value of the tensor's type built with the same identity.
copy(t) == [id |-> t.id, ty |-> t.ty, form |-> "copy"]

\* The values a program holds for the tensor t.
Handles(t) == {t, phantom(t), copy(t)}

\* The tensors of the program: two kinds of tensor built with identity 1, one
\* with identity 2.
Tensors == {Tensor(1, "short"), Tensor(1, "long"), Tensor(2, "long")}

PhantomNext ==
    \/ \E t \in Tensors : \E h \in Handles(t) : MutGradient(h)
    \/ \E t \in Tensors : \E h \in Handles(t) : RefGradient(h)
    \/ \E t \in Tensors : \E h \in Handles(t) : Remove(h)
    \/ \E ty \in ArrayTypes : \E v \in Arrays(ty) : WriteAll(v)

PhantomSpec == Init /\ [][PhantomNext]_vars

\* ------------------------------------------------------------ identities

\* unique_id() is called by the test of gradients.rs and defined outside the
\* files at hand; it is modelled as the specification describes it: one
\* atomically incremented counter in process-wide state.

\* Mutant: the counter is read and not incremented.
fetch_add_load(c) == [ret |-> c, next |-> c]

\* COUNTER.fetch_add(1): the old value is returned and the counter is
\* incremented, in one atomic step.
fetch_add(c) == [ret |-> c, next |-> c + 1]

\* let id = unique_id();   on thread th
UniqueId(th) ==
    /\ threads[th].pc = "idle"
    /\ counter < MaxDraws
    /\ LET f == fetch_add(counter)
       IN /\ counter' = f.next
          /\ threads' = [threads EXCEPT ![th].pc = "drawn",
                                        ![th].fresh = f.ret]
    /\ UNCHANGED <<storeVars, tapeVars, firstTy, holder>>

\* Tensor { id }: the thread builds a tensor that carries the identity.
NewTensor(th) ==
    /\ threads[th].pc = "drawn"
    /\ threads' = [threads EXCEPT ![th].pc = "idle",
                                  ![th].ids = Append(@, threads[th].fresh)]
    /\ UNCHANGED <<storeVars, tapeVars, firstTy, holder, counter>>

IdNext ==
    \/ \E th \in Threads : UniqueId(th)
    \/ \E th \in Threads : NewTensor(th)

IdSpec == Init /\ [][IdNext]_vars

\* ------------------------------------------------ claims about the store

IsZeros(a, ty) ==
    /\ DOMAIN a = 1 .. ArrayLen(ty)
    /\ \A i \in DOMAIN a : a[i] = 0

\* The entity fits the store: no entry under its identity has another type.
WellTyped(g, t) == g[t.id] = NoEntry \/ g[t.id].ty = t.ty

\* C3: mut_gradient(t) does not fail for a well-typed entity; when the store
\* has no entry for t's identity it inserts a zero-filled array of t's array
\* type and returns it; when it has one it returns that entry as it is and
\* does not set it back to zero.
C3_MutGradient ==
    [][(last'.op = "mut_gradient" /\ WellTyped(gradients, last'.t)) =>
        LET t == last'.t
            e == gradients[t.id]
        IN /\ last'.status = "ok"
           /\ e = NoEntry =>
                /\ IsZeros(last'.val, t.ty)
                /\ gradients' = [gradients EXCEPT ![t.id] = Entry(t.ty, last'.val)]
           /\ e /= NoEntry =>
                /\ last'.val = e.data
                /\ gradients' = gradients]_vars

\* mut_gradient returned an entry that existed, with an element that is not
\* zero.
C3_Witness ==
    /\ last.op = "mut_gradient"
    /\ last.status = "ok"
    /\ \E i \in DOMAIN last.val : last.val[i] /= 0
    /\ gradients[last.t.id].data = last.val

\* C4: what was written through the reference mut_gradient returned is what
\* ref_gradient returns for the same identity (and array type), as long as
\* the identity was not removed in between.
C4_RoundTrip ==
    (/\ last.op = "ref_gradient"
     /\ wrote[last.t.id] /= NoEntry
     /\ wrote[last.t.id].ty = last.t.ty) =>
        /\ last.status = "ok"
        /\ last.val = wrote[last.t.id].data

\* A zero buffer, its first element set to MaxVal, read back by ref_gradient.
C4_Witness ==
    /\ last.op = "ref_gradient"
    /\ last.status = "ok"
    /\ last.t.ty = "long"
    /\ wrote[last.t.id] = Entry("long", last.val)
    /\ last.val[1] = MaxVal
    /\ \A i \in 2 .. ArrayLen("long") : last.val[i] = 0

\* C5: ref_gradient(t) and remove(t) on an identity without an entry fail
\* with a LookupError, return nothing, and leave the store as it was.
C5_LookupError ==
    [][(/\ last'.op \in {"ref_gradient", "remove"}
        /\ gradients[last'.t.id] = NoEntry) =>
        /\ last'.status = "LookupError"
        /\ last'.val = NoVal
        /\ gradients' = gradients]_vars

\* remove failed on an identity without an entry while another identity has
\* one.
C5_Witness ==
    /\ last.op = "remove"
    /\ last.status = "LookupError"
    /\ gradients[last.t.id] = NoEntry
    /\ Present(gradients) /= {}

\* C6: remove(t) on an identity whose entry holds v (of t's array type)
\* returns exactly v and deletes the entry; from then on ref_gradient and
\* remove for that identity fail with LookupError, and only mut_gradient (on
\* its own or as the first access of mut_and_ref) creates the entry again.
C6_Remove ==
    /\ [][(/\ last'.op = "remove"
            /\ gradients[last'.t.id] /= NoEntry
            /\ gradients[last'.t.id].ty = last'.t.ty) =>
            /\ last'.status = "ok"
            /\ last'.val = gradients[last'.t.id].data
            /\ gradients' = [gradients EXCEPT ![last'.t.id] = NoEntry]]_vars
    /\ [][(/\ last'.op \in {"ref_gradient", "remove"}
            /\ gradients[last'.t.id] = NoEntry) =>
            last'.status = "LookupError"]_vars
    /\ [][\A i \in Ids :
            (gradients[i] = NoEntry /\ gradients'[i] /= NoEntry) =>
                /\ last'.op \in {"mut_gradient", "mut_and_ref"}
                /\ last'.t.id = i]_vars

\* remove returned an array that was written before, and the entry is gone.
C6_Witness ==
    /\ last.op = "remove"
    /\ last.status = "ok"
    /\ \E i \in DOMAIN last.val : last.val[i] /= 0
    /\ gradients[last.t.id] = NoEntry

\* C7: mut_and_ref(l, r) with l.id() = r.id() fails with an identity
\* collision for every pair of entities, whatever their array types and
\* whether or not the store has an entry for the identity, and the failing
\* call creates and changes no entry.
C7_IdentityCollision ==
    [][(last'.op = "mut_and_ref" /\ last'.t.id = last'.r.id) =>
        /\ last'.status = "IdentityCollision"
        /\ last'.val = NoVal
        /\ last'.rval = NoVal
        /\ gradients' = gradients]_vars

\* The call failed for two entities of different array types whose identity
\* has no entry.
C7_Witness ==
    /\ last.op = "mut_and_ref"
    /\ last.status = "IdentityCollision"
    /\ last.t.id = last.r.id
    /\ last.t.ty /= last.r.ty
    /\ gradients[last.t.id] = NoEntry

\* C8: mut_and_ref(l, r) with distinct identities, r having an entry (both
\* entities well-typed), returns l's entry (created zero-filled when absent,
\* else as it is) together with r's entry as it is, both of the one store;
\* an assignment through the l reference changes l's entry and no other.
C8_MutAndRef ==
    /\ [][(/\ last'.op = "mut_and_ref"
            /\ last'.t.id /= last'.r.id
            /\ gradients[last'.r.id] /= NoEntry
            /\ gradients[last'.r.id].ty = last'.r.ty
            /\ WellTyped(gradients, last'.t)) =>
            LET l == last'.t
                r == last'.r
            IN /\ last'.status = "ok"
               /\ last'.rval = gradients[r.id].data
               /\ gradients[l.id] = NoEntry => IsZeros(last'.val, l.ty)
               /\ gradients[l.id] /= NoEntry => last'.val = gradients[l.id].data
               /\ gradients' = [gradients EXCEPT ![l.id] = Entry(l.ty, last'.val)]
               /\ borrow' = [l |-> l, r |-> r]]_vars
    /\ [][(last'.op = "write" /\ borrow.r /= NoEntity) =>
            /\ gradients' = [gradients EXCEPT ![borrow.l.id].data = last'.val]
            /\ gradients'[borrow.r.id] = gradients[borrow.r.id]
            /\ last'.rval = gradients[borrow.r.id].data]_vars

\* Through the l reference of mut_and_ref an array was written that differs
\* from r's entry, which is not zero.
C8_Witness ==
    /\ last.op = "write"
    /\ borrow.r /= NoEntity
    /\ gradients[borrow.l.id].data = last.val
    /\ \E i \in DOMAIN last.val : last.val[i] /= 0
    /\ \E i \in DOMAIN last.rval : last.rval[i] /= 0
    /\ gradients[borrow.r.id].data = last.rval
    /\ last.val /= last.rval

\* The entity's array type is not the type of the entry under its identity.
Mistyped(g, t) == g[t.id] /= NoEntry /\ g[t.id].ty /= t.ty

\* C13: mut_gradient, ref_gradient and remove, called with an entity whose
\* array type differs from the type the existing entry was stored with, fail
\* with a TypeError and return nothing; an array that a call returns always
\* has the array type of the entity the call was given.
C13_TypeError ==
    /\ [][(/\ last'.op \in {"mut_gradient", "ref_gradient", "remove"}
            /\ Mistyped(gradients, last'.t)) =>
            /\ last'.status = "TypeError"
            /\ last'.val = NoVal
            /\ borrow' = NoBorrow]_vars
    /\ [][(/\ last'.op \in {"mut_gradient", "ref_gradient", "remove"}
            /\ last'.status = "ok") =>
            /\ gradients[last'.t.id] /= NoEntry =>
                 gradients[last'.t.id].ty = last'.t.ty
            /\ DOMAIN last'.val = 1 .. ArrayLen(last'.t.ty)]_vars

\* ref_gradient failed on an entry of the other array type that was written
\* to.
C13_Witness ==
    /\ last.op = "ref_gradient"
    /\ last.status = "TypeError"
    /\ Mistyped(gradients, last.t)
    /\ \E i \in DOMAIN gradients[last.t.id].data :
         gradients[last.t.id].data[i] /= 0

\* C14 as stated: the array type stored under an identity is always the type
\* of the first entry stored under it, over any sequence of calls.
C14_Original ==
    \A i \in Ids : gradients[i] /= NoEntry => gradients[i].ty = firstTy[i]

\* C14, amended: no call changes the array type of an entry that exists
\* before and after it (a mismatched access fails and leaves the type alone);
\* an entry comes into being only through mut_gradient or the l side of
\* mut_and_ref, with the array type of that access; and the type stored under
\* an identity differs from the first one stored only after a remove of that
\* identity has deleted the earlier entry.
C14_TypeFixed ==
    [][\A i \in Ids :
         /\ (gradients[i] /= NoEntry /\ gradients'[i] /= NoEntry) =>
              gradients'[i].ty = gradients[i].ty
         /\ (gradients[i] = NoEntry /\ gradients'[i] /= NoEntry) =>
              /\ last'.op \in {"mut_gradient", "mut_and_ref"}
              /\ last'.t.id = i
              /\ gradients'[i].ty = last'.t.ty
         /\ (gradients[i] /= NoEntry /\ gradients[i].ty = firstTy[i]
               /\ ~(gradients'[i] /= NoEntry /\ gradients'[i].ty = firstTy'[i])) =>
              /\ last'.op = "remove"
              /\ last'.t.id = i
              /\ gradients'[i] = NoEntry]_vars

\* A mismatched mut_gradient failed on an entry that was written to, and the
\* entry still has the type it was stored with.
C14_Witness ==
    /\ last.op = "mut_gradient"
    /\ last.status = "TypeError"
    /\ Mistyped(gradients, last.t)
    /\ gradients[last.t.id].ty = firstTy[last.t.id]
    /\ gradients[last.t.id] = wrote[last.t.id]
    /\ ~IsZeros(gradients[last.t.id].data, gradients[last.t.id].ty)

\* C16: the store is keyed by identity alone. A tensor, its phantom and a
\* copy built with its identity have one identity and one array type; a call
\* made with any of them touches no entry but the tensor's; and an array
\* written through the reference one of them obtained is what ref_gradient,
\* mut_gradient and remove return for any other of them.
C16_KeyedByIdentity ==
    /\ [](\A t \in Tensors : \A h \in Handles(t) :
              h.id = t.id /\ h.ty = t.ty)
    /\ [][\A t \in Tensors :
            /\ last'.t \in Handles(t) =>
                 \A i \in Ids \ {t.id} : gradients'[i] = gradients[i]
            /\ (/\ last.op = "write"
                /\ last.t \in Handles(t)
                /\ last'.op \in {"ref_gradient", "mut_gradient", "remove"}
                /\ last'.t \in Handles(t)) =>
                 /\ last'.status = "ok"
                 /\ last'.val = last.val
                 /\ Present(gradients) = Present(gradients') \cup {t.id}]_vars

\* A non-zero array written through the reference the tensor obtained was
\* read back with ref_gradient through the tensor's phantom.
C16_Witness ==
    /\ last.op = "ref_gradient"
    /\ last.t.form = "phantom"
    /\ last.status = "ok"
    /\ borrow = NoBorrow
    /\ wrote[last.t.id] = Entry(last.t.ty, last.val)
    /\ ~IsZeros(last.val, last.t.ty)

\* C17: the identities present in the store change only as follows:
\* mut_gradient(t) adds t's identity if it is missing, mut_and_ref(l, r) with
\* distinct identities adds l's if it is missing, a remove(t) that finds t's
\* entry deletes t's identity, and no other call adds or deletes one. A
\* mut_gradient on an identity that has an entry of the entity's type leaves
\* the store as it is and returns the array the entry holds; ref_gradient
\* never changes the store.
C17_OneEntryPerIdentity ==
    [][LET P == Present(gradients)
           Q == Present(gradients')
       IN /\ last'.op = "mut_gradient" =>
               /\ Q = P \cup {last'.t.id}
               /\ last'.t.id \in P => gradients' = gradients
               /\ (last'.t.id \in P /\ last'.status = "ok") =>
                    last'.val = gradients[last'.t.id].data
          /\ last'.op = "mut_and_ref" =>
               /\ Q = IF last'.status = "IdentityCollision"
                      THEN P
                      ELSE P \cup {last'.t.id}
               /\ last'.t.id \in P => gradients' = gradients
          /\ last'.op = "remove" =>
               /\ Q = P \ {last'.t.id}
               /\ last'.status = "LookupError" <=> last'.t.id \notin P
          /\ last'.op = "ref_gradient" => gradients' = gradients
          /\ last'.op = "write" => Q = P]_vars

\* A second mut_gradient on an identity returned the non-zero array written
\* after the first, with both identities present.
C17_Witness ==
    /\ last.op = "mut_gradient"
    /\ last.status = "ok"
    /\ ~IsZeros(last.val, last.t.ty)
    /\ gradients[last.t.id] = Entry(last.t.ty, last.val)
    /\ Present(gradients) = CallIds

\* C18: mut_gradient(t), a write through the reference it returned,
\* ref_gradient(t) and remove(t) leave the entry of every identity other than
\* t's as it was: present or not, with the same array type and contents.
C18_Frame ==
    [][last'.op \in {"mut_gradient", "write", "ref_gradient", "remove"} =>
          \A i \in Ids \ {last'.t.id} : gradients'[i] = gradients[i]]_vars

\* remove took t's entry out and the other identity still has the non-zero
\* array written to it.
C18_Witness ==
    /\ last.op = "remove"
    /\ last.status = "ok"
    /\ gradients[last.t.id] = NoEntry
    /\ \E i \in Ids \ {last.t.id} :
         /\ gradients[i] /= NoEntry
         /\ gradients[i] = wrote[i]
         /\ ~IsZeros(gradients[i].data, gradients[i].ty)

\* C19: mut_and_ref(l, r) with distinct identities, r without an entry and l
\* well-typed fails with LookupError; the failing call has created l's
\* zero-filled entry if l had none and has left an existing entry of l as it
\* was; no mut_and_ref call creates an entry for r.
C19_MutAndRefMissingR ==
    [][last'.op = "mut_and_ref" =>
          /\ gradients[last'.r.id] = NoEntry => gradients'[last'.r.id] = NoEntry
          /\ (/\ last'.t.id /= last'.r.id
              /\ gradients[last'.r.id] = NoEntry
              /\ WellTyped(gradients, last'.t)) =>
               /\ last'.status = "LookupError"
               /\ last'.val = NoVal /\ last'.rval = NoVal
               /\ borrow' = NoBorrow
               /\ gradients'[last'.t.id] =
                    IF gradients[last'.t.id] = NoEntry
                    THEN Entry(last'.t.ty, zeros(last'.t.ty))
                    ELSE gradients[last'.t.id]
               /\ \A i \in Ids \ {last'.t.id} :
                    gradients'[i] = gradients[i]]_vars

\* mut_and_ref failed with LookupError on r and left a zero-filled entry for
\* l, the only entry of the store, which nothing was ever written to.
C19_Witness ==
    /\ last.op = "mut_and_ref"
    /\ last.status = "LookupError"
    /\ gradients[last.r.id] = NoEntry
    /\ gradients[last.t.id] = Entry(last.t.ty, zeros(last.t.ty))
    /\ Present(gradients) = {last.t.id}
    /\ wrote = EmptyStore

\* ------------------------------------------------- claims about the tape

Executed == last.op = "execute"

Returned == Executed /\ last.status = "ok"

Tags == 1 .. Len(recorded)

Count(n, seq) == Cardinality({j \in 1 .. Len(seq) : seq[j] = n})

\* C1: execute calls the recorded operations in exactly the reverse of the
\* order they were recorded in: the j-th call is the call of the operation
\* recorded (N-j+1)-th, so the order log reads last-recorded first; when
\* execute returns, all N operations have been called. Until execute, the
\* Vec holds the operations last-recorded first.
C1_ReverseOrder ==
    LET N == Len(recorded)
    IN /\ \A j \in 1 .. Len(log) : log[j] = N - j + 1
       /\ Returned => Len(log) = N
       /\ tape = "live" =>
            /\ Len(operations) = N
            /\ \A j \in 1 .. N : operations[j] = recorded[N - j + 1]

\* Three operations were recorded and ran: the log reads 3, 2, 1.
C1_Witness ==
    /\ Returned
    /\ Len(recorded) = 3
    /\ log = <<3, 2, 1>>

RECURSIVE SumC(_)
SumC(ops) == IF ops = << >> THEN 0 ELSE Head(ops).c + SumC(Tail(ops))

AllAccumulateInto(x) ==
    /\ recorded /= << >>
    /\ \A j \in 1 .. Len(recorded) :
         recorded[j].kind = "acc" /\ recorded[j].t = x

\* C2: when every recorded operation adds a constant to entity X's gradient
\* through mut_gradient, execute returns, and the store it returns holds for
\* X, in every element, the sum of the recorded constants (counted up from a
\* zero buffer).
C2_AccumulatedSum ==
    \A x \in Entities :
        (tape = "consumed" /\ AllAccumulateInto(x)) =>
            /\ Returned
            /\ gradients[x.id].ty = x.ty
            /\ DOMAIN gradients[x.id].data = 1 .. ArrayLen(x.ty)
            /\ \A i \in 1 .. ArrayLen(x.ty) :
                 gradients[x.id].data[i] = SumC(recorded)

\* A adds 1, then B adds 2: X's gradient is 3 in every element and the log
\* reads B, A.
C2_Witness ==
    /\ Returned
    /\ Len(recorded) = 2
    /\ AllAccumulateInto(Tensor(1, "long"))
    /\ recorded[1].c = 1
    /\ recorded[2].c = 2
    /\ \A i \in 1 .. ArrayLen("long") : gradients[1].data[i] = 3
    /\ log = <<2, 1>>

\* C9 as stated: once execute has taken the tape, every recorded operation
\* has been called exactly once (and none was called before).
C9_Original ==
    /\ tape = "live" => log = << >>
    /\ tape = "consumed" => \A n \in Tags : Count(n, log) = 1

\* C9, amended: no operation is called before execute, and none is ever
\* called twice; execute takes the tape and leaves it without operations, so
\* it cannot be executed again; when execute returns, every recorded
\* operation has been called exactly once; when a called operation panics,
\* the operations that were to run after it are never called.
C9_AtMostOnce ==
    /\ tape = "live" => log = << >>
    /\ \A n \in Tags : Count(n, log) <= 1
    /\ \A j \in 1 .. Len(log) : log[j] \in Tags
    /\ Executed <=> tape = "consumed"
    /\ tape = "consumed" => operations = << >> /\ ~ENABLED Execute
    /\ Returned => \A n \in Tags : Count(n, log) = 1
    /\ (Executed /\ ~Returned) =>
         /\ log /= << >>
         /\ \A n \in Tags : Count(n, log) = (IF n >= log[Len(log)] THEN 1 ELSE 0)

\* Three operations were recorded and execute called each of them once.
C9_Witness ==
    /\ tape = "consumed"
    /\ Returned
    /\ Len(recorded) = 3
    /\ \A n \in Tags : Count(n, log) = 1

\* A forward computation built by sequential composition, as its recording
\* shows it: every operation but the last recorded a chain step that reads its
\* output's gradient (.r) and accumulates into its input's (.t); an output is
\* a new tensor, which no operation recorded up to then has as input or
\* output; every output is the input of an operation recorded later; and the
\* last recorded step seeds the gradient of the final output.
Sequential(rec) ==
    LET N == Len(rec)
    IN /\ N >= 1
       /\ rec[N].kind = "acc"
       /\ \A j \in 1 .. N - 1 :
            /\ rec[j].kind = "chain"
            /\ \A k \in 1 .. j : rec[k].t.id /= rec[j].r.id
            /\ \A k \in 1 .. j - 1 : rec[k].r.id /= rec[j].r.id
            /\ \E k \in j + 1 .. N : rec[k].t.id = rec[j].r.id

\* Every identity is recorded with one array type.
OneTypeEach(rec) ==
    \A j \in 1 .. Len(rec), k \in 1 .. Len(rec) :
        \A a \in {rec[j].t, rec[j].r}, b \in {rec[k].t, rec[k].r} :
            a.id = b.id => a.ty = b.ty

\* The position in the order log of the call of the operation recorded n-th.
Pos(n) == CHOOSE p \in 1 .. Len(log) : log[p] = n

\* C15: when the recording is that of a sequential composition whose last
\* recorded step seeds the final output's gradient, execute calls the step of
\* every operation that consumes an output before the step of the operation
\* that produced it, and no step fails with LookupError; with one array type
\* per identity execute returns, with an entry for every input.
C15_ReverseTopological ==
    (Executed /\ Sequential(recorded)) =>
        /\ last.status /= "LookupError"
        /\ \A j \in Tags, k \in Tags :
             (recorded[k].t.id = recorded[j].r.id /\ Count(j, log) > 0) =>
                 /\ Count(k, log) > 0
                 /\ Pos(k) < Pos(j)
        /\ OneTypeEach(recorded) =>
             /\ Returned
             /\ \A j \in Tags : gradients[recorded[j].t.id] /= NoEntry

\* x(1) -> y(2) -> z(3) was recorded, z's gradient seeded last, and execute
\* returned with a gradient for x, y and z.
C15_Witness ==
    /\ Returned
    /\ Sequential(recorded)
    /\ Len(recorded) = 3
    /\ recorded[1].t.id = 1 /\ recorded[1].r.id = 2
    /\ recorded[2].t.id = 2 /\ recorded[2].r.id = 3
    /\ recorded[3].t.id = 3
    /\ \A i \in Ids : gradients[i] /= NoEntry /\ ~IsZeros(gradients[i].data, gradients[i].ty)

Touched == {recorded[j].t.id : j \in 1 .. Len(recorded)}

\* C10: the store execute returns is built from a new, empty store: it has
\* entries only for identities the recorded operations accessed mutably, and
\* for an empty tape it is empty, whatever store the program held before.
C10_FreshStore ==
    Returned =>
        /\ Present(gradients) \subseteq Touched
        /\ recorded = << >> => gradients = EmptyStore

\* The operations of the tape touched identity 2 only, and the returned
\* store has an entry for identity 2 only.
C10_Witness ==
    /\ Returned
    /\ Touched = {2}
    /\ Present(gradients) = {2}

\* ------------------------------------------ claims about the Tape trait

\* C11: the two Tape implementations differ in recording only.
\* OwnedTape.add_backward_op hands the operation to its GradientTape, whose
\* Vec grows by exactly that operation, placed in front of all earlier ones;
\* NoneTape.add_backward_op changes nothing, records nothing, and its
\* operation never runs; OWNS_TAPE is true for OwnedTape and false for
\* NoneTape.
C11_TapeCapability ==
    /\ [][last'.op = "add_backward_op" =>
            /\ log' = log
            /\ gradients' = gradients
            /\ tape' = tape
            /\ IF holder = "OwnedTape"
               THEN /\ Len(operations') = Len(operations) + 1
                    /\ Tail(operations') = operations
                    /\ Head(operations').t = last'.t
                    /\ Head(operations').r = last'.r
                    /\ Head(operations').tag = Len(operations) + 1
               ELSE operations' = operations]_vars
    /\ [](holder = "NoneTape" =>
            operations = << >> /\ log = << >> /\ gradients = EmptyStore)
    /\ [](OWNS_TAPE(holder) <=> holder = "OwnedTape")
    /\ [](OWNS_TAPE("OwnedTape") /\ ~OWNS_TAPE("NoneTape"))

\* A closure was handed to a NoneTape and nothing was recorded.
C11_Witness ==
    /\ holder = "NoneTape"
    /\ last.op = "add_backward_op"
    /\ last.t /= NoEntity
    /\ operations = << >>
    /\ log = << >>

\* ------------------------------------------------ claims about identities

\* The places an identity is held at: the j-th tensor of a thread, or (0) the
\* value unique_id() has just returned to it.
Slots ==
    {sl \in Threads \X (0 .. MaxDraws) :
        IF sl[2] = 0
        THEN threads[sl[1]].pc = "drawn"
        ELSE sl[2] <= Len(threads[sl[1]].ids)}

IdAt(sl) ==
    IF sl[2] = 0 THEN threads[sl[1]].fresh ELSE threads[sl[1]].ids[sl[2]]

\* C12: every call of unique_id() returns an identity distinct from all that
\* were returned before, in every interleaving of the calling threads: no
\* two identities held anywhere are equal, and each is below the counter, so
\* it is not handed out again.
C12_UniqueIds ==
    /\ \A s1 \in Slots, s2 \in Slots : s1 /= s2 => IdAt(s1) /= IdAt(s2)
    /\ \A sl \in Slots : IdAt(sl) < counter
    /\ Cardinality(Slots) = counter

\* Both threads have built tensors, their draws interleaved, and one of them
\* holds an identity it has just drawn.
C12_Witness ==
    /\ Len(threads["main"].ids) = 2
    /\ Len(threads["worker"].ids) = 1
    /\ threads["main"].ids[1] < threads["worker"].ids[1]
    /\ threads["worker"].ids[1] < threads["main"].ids[2]
    /\ threads["worker"].pc = "drawn"

====
